---- MODULE Spec2Model ----
\* Semantic analysis of the WHERE clause of a DML statement
\* (yb/sql/ptree/pt_dml.cc): PTDmlStmt and WhereExprState.
EXTENDS Integers, Sequences, FiniteSets, TLC

\* ---------------------------------------------------------------- bounds
\* Largest number of columns of a table the catalog returns.
MaxColumns == 4
\* Largest number of leaf comparisons of a WHERE conjunction.
MaxLeaves == 3

\* ---------------------------------------------------------------- values
\* YQL operators of a relation expression; "NE" stands for every operator the
\* switch of AnalyzeColumnOp sends to its default branch.
RangeLT == {"LT", "LTE"}
RangeGT == {"GT", "GTE"}
Operators == {"EQ", "NE"} \cup RangeLT \cup RangeGT

\* Status values: OK and the error each return statement reports.
OK == "OK"
SystemNamespaceReadOnly == "SystemNamespaceReadOnly"
TableNotFound == "TableNotFound"
MissingPartitionKey == "MissingPartitionKey"
MissingKeyCondition == "MissingKeyCondition"
IllogicalCondition == "IllogicalCondition"
NonKeyColumnInWhere == "NonKeyColumnInWhere"
PartitionColumnInRangeExpr == "PartitionColumnInRangeExpr"
RangeNotYetSupported == "RangeNotYetSupported"
IllegalRangeCondition == "IllegalRangeCondition"
UnsupportedOperator == "UnsupportedOperator"
InvalidTtl == "InvalidTtl"

\* The errors AnalyzeColumnOp returns for a leaf.
LeafErrors == {IllogicalCondition, NonKeyColumnInWhere, PartitionColumnInRangeExpr,
               RangeNotYetSupported, IllegalRangeCondition, UnsupportedOperator}

\* ---------------------------------------------------------------- vectors
\* MCVector, indexed from 0 as in the source.
EmptyVector == [i \in {} |-> 0]
Size(v) == Cardinality(DOMAIN v)
Resize(v, n, fill) == [i \in 0..(n - 1) |-> IF i \in DOMAIN v THEN v[i] ELSE fill]

\* MCList::push_front / push_back on where_ops_.
PushFront(l, e) == <<e>> \o l
PushBack(l, e) == Append(l, e)

\* ---------------------------------------------------------------- records
\* ColumnDesc::Init(idx, id, idx < num_hash, idx < num_key, is_static, ...).
ColumnDesc(idx, num_hash, num_key, is_static) ==
  [index |-> idx, is_hash |-> idx < num_hash, is_primary |-> idx < num_key,
   is_static |-> is_static]

\* ColumnOp: a default-constructed one has no descriptor.
NoColumnOp == [desc |-> -1, expr |-> 0, yql_op |-> "NONE"]
ColumnOp(col_desc, value, op) == [desc |-> col_desc.index, expr |-> value, yql_op |-> op]
IsInitialized(col_op) == col_op.desc # -1

\* ColumnOpCounter: default-constructed with all counts zero.
NoCount == [eq_count |-> 0, lt_count |-> 0, gt_count |-> 0]

\* The schemas the catalog can return: hash columns (a YQL table has at least
\* one), then the other key columns, then the rest, of which any may be static.
Schemas ==
  { [num_columns |-> n, num_key_columns |-> nk, num_hash_key_columns |-> nh, statics |-> st] :
      <<n, nk, nh, st>> \in
        { q \in (1..MaxColumns) \X (1..MaxColumns) \X (1..MaxColumns) \X SUBSET (0..(MaxColumns - 1)) :
            /\ q[3] <= q[2] /\ q[2] <= q[1]
            /\ q[4] \subseteq (q[2]..(q[1] - 1)) } }

\* ---------------------------------------------------------------- WhereExprState
\* WhereExprState(&where_ops_, &key_where_ops_, &op_counters, write_only_).
WhereExprState(ops, key_ops, op_counters, write_only) ==
  [ops |-> ops, key_ops |-> key_ops, op_counters |-> op_counters, write_only |-> write_only]

\* What a call of AnalyzeColumnOp leaves behind: its status and the three
\* collections the state points to.
Outcome(status, ops, key_ops, op_counters) ==
  [status |-> status, ops |-> ops, key_ops |-> key_ops, op_counters |-> op_counters]

\* Mutant: an error return that throws away what the earlier leaves recorded.
Reject_Discarding(w, error) ==
  Outcome(error, <<>>, [idx \in DOMAIN w.key_ops |-> NoColumnOp], w.op_counters)

\* An error return taken before anything was written.
Reject(w, error) == Outcome(error, w.ops, w.key_ops, w.op_counters)

\* Mutant: the EQ case looks only at earlier EQs, not at earlier range comparisons.
AnalyzeEqual_OnlyEqCounted(w, col_desc, value) ==
  LET counter == w.op_counters[col_desc.index]
      increased == [w.op_counters EXCEPT ![col_desc.index].eq_count = @ + 1]
      filled == [w.key_ops EXCEPT ![col_desc.index] = ColumnOp(col_desc, value, "EQ")]
  IN IF counter.eq_count > 0
       THEN Reject(w, IllogicalCondition)
     ELSE IF col_desc.is_hash
       THEN Outcome(OK, w.ops, filled, increased)
     ELSE IF col_desc.is_primary
       THEN IF w.write_only
              THEN Outcome(OK, w.ops, filled, increased)
              ELSE Outcome(OK, PushBack(w.ops, ColumnOp(col_desc, value, "EQ")),
                           w.key_ops, increased)
     ELSE Outcome(NonKeyColumnInWhere, w.ops, w.key_ops, increased)

\* Mutant: an EQ on a regular column goes to the filter list, in writes too.
AnalyzeEqual_RegularFiltered(w, col_desc, value) ==
  LET counter == w.op_counters[col_desc.index]
      increased == [w.op_counters EXCEPT ![col_desc.index].eq_count = @ + 1]
      filled == [w.key_ops EXCEPT ![col_desc.index] = ColumnOp(col_desc, value, "EQ")]
  IN IF counter.eq_count > 0 \/ counter.gt_count > 0 \/ counter.lt_count > 0
       THEN Reject(w, IllogicalCondition)
     ELSE IF col_desc.is_hash
       THEN Outcome(OK, w.ops, filled, increased)
     ELSE IF col_desc.is_primary /\ w.write_only
       THEN Outcome(OK, w.ops, filled, increased)
     ELSE Outcome(OK, PushBack(w.ops, ColumnOp(col_desc, value, "EQ")), w.key_ops, increased)

\* Mutant: an EQ on a clustering column goes to the filter list, in writes too.
AnalyzeEqual_ClusteringFiltered(w, col_desc, value) ==
  LET counter == w.op_counters[col_desc.index]
      increased == [w.op_counters EXCEPT ![col_desc.index].eq_count = @ + 1]
      filled == [w.key_ops EXCEPT ![col_desc.index] = ColumnOp(col_desc, value, "EQ")]
  IN IF counter.eq_count > 0 \/ counter.gt_count > 0 \/ counter.lt_count > 0
       THEN Reject(w, IllogicalCondition)
     ELSE IF col_desc.is_hash
       THEN Outcome(OK, w.ops, filled, increased)
     ELSE IF col_desc.is_primary
       THEN Outcome(OK, PushBack(w.ops, ColumnOp(col_desc, value, "EQ")),
                    w.key_ops, increased)
     ELSE Outcome(NonKeyColumnInWhere, w.ops, w.key_ops, increased)

\* case YQL_OP_EQUAL.
AnalyzeEqual(w, col_desc, value) ==
  LET counter == w.op_counters[col_desc.index]
      increased == [w.op_counters EXCEPT ![col_desc.index].eq_count = @ + 1]
      filled == [w.key_ops EXCEPT ![col_desc.index] = ColumnOp(col_desc, value, "EQ")]
  IN IF counter.eq_count > 0 \/ counter.gt_count > 0 \/ counter.lt_count > 0
       THEN Reject(w, IllogicalCondition)
     ELSE IF col_desc.is_hash
       THEN Outcome(OK, w.ops, filled, increased)
     ELSE IF col_desc.is_primary
       THEN IF w.write_only
              THEN Outcome(OK, w.ops, filled, increased)
              ELSE Outcome(OK, PushBack(w.ops, ColumnOp(col_desc, value, "EQ")),
                           w.key_ops, increased)
     ELSE Outcome(NonKeyColumnInWhere, w.ops, w.key_ops, increased)

\* Mutant: the write-path check comes before the hash-column check.
AnalyzeLess_WriteCheckedFirst(w, col_desc, op, value) ==
  LET counter == w.op_counters[col_desc.index]
      increased == [w.op_counters EXCEPT ![col_desc.index].lt_count = @ + 1]
  IN IF col_desc.is_primary /\ w.write_only
       THEN Reject(w, RangeNotYetSupported)
     ELSE IF col_desc.is_hash
       THEN Reject(w, PartitionColumnInRangeExpr)
     ELSE IF col_desc.is_primary
       THEN IF counter.eq_count > 0 \/ counter.lt_count > 0
              THEN Reject(w, IllegalRangeCondition)
              ELSE Outcome(OK, PushBack(w.ops, ColumnOp(col_desc, value, op)),
                           w.key_ops, increased)
     ELSE Reject(w, NonKeyColumnInWhere)

\* Mutant: on the read path a regular column goes to the filter list.
AnalyzeLess_RegularFiltered(w, col_desc, op, value) ==
  LET counter == w.op_counters[col_desc.index]
      increased == [w.op_counters EXCEPT ![col_desc.index].lt_count = @ + 1]
  IN IF col_desc.is_hash
       THEN Reject(w, PartitionColumnInRangeExpr)
     ELSE IF col_desc.is_primary
       THEN IF w.write_only
              THEN Reject(w, RangeNotYetSupported)
            ELSE IF counter.eq_count > 0 \/ counter.lt_count > 0
              THEN Reject(w, IllegalRangeCondition)
            ELSE Outcome(OK, PushBack(w.ops, ColumnOp(col_desc, value, op)),
                         w.key_ops, increased)
     ELSE IF w.write_only
       THEN Reject(w, NonKeyColumnInWhere)
     ELSE Outcome(OK, PushBack(w.ops, ColumnOp(col_desc, value, op)), w.key_ops, increased)

\* Mutant: on the read path an earlier comparison of either family rejects the leaf.
AnalyzeLess_AnyRangeCounted(w, col_desc, op, value) ==
  LET counter == w.op_counters[col_desc.index]
      increased == [w.op_counters EXCEPT ![col_desc.index].lt_count = @ + 1]
  IN IF col_desc.is_hash
       THEN Reject(w, PartitionColumnInRangeExpr)
     ELSE IF col_desc.is_primary
       THEN IF w.write_only
              THEN Reject(w, RangeNotYetSupported)
            ELSE IF counter.eq_count > 0 \/ counter.lt_count > 0 \/ counter.gt_count > 0
              THEN Reject(w, IllegalRangeCondition)
            ELSE Outcome(OK, PushBack(w.ops, ColumnOp(col_desc, value, op)),
                         w.key_ops, increased)
     ELSE Reject(w, NonKeyColumnInWhere)

\* case YQL_OP_LESS_THAN, YQL_OP_LESS_THAN_EQUAL.
AnalyzeLess(w, col_desc, op, value) ==
  LET counter == w.op_counters[col_desc.index]
      increased == [w.op_counters EXCEPT ![col_desc.index].lt_count = @ + 1]
  IN IF col_desc.is_hash
       THEN Reject(w, PartitionColumnInRangeExpr)
     ELSE IF col_desc.is_primary
       THEN IF w.write_only
              THEN Reject(w, RangeNotYetSupported)
            ELSE IF counter.eq_count > 0 \/ counter.lt_count > 0
              THEN Reject(w, IllegalRangeCondition)
            ELSE Outcome(OK, PushBack(w.ops, ColumnOp(col_desc, value, op)),
                         w.key_ops, increased)
     ELSE Reject(w, NonKeyColumnInWhere)

\* Mutant: the counters are looked at before the write-path check.
AnalyzeGreater_CountersCheckedFirst(w, col_desc, op, value) ==
  LET counter == w.op_counters[col_desc.index]
      increased == [w.op_counters EXCEPT ![col_desc.index].gt_count = @ + 1]
  IN IF col_desc.is_hash
       THEN Reject(w, PartitionColumnInRangeExpr)
     ELSE IF col_desc.is_primary
       THEN IF counter.eq_count > 0 \/ counter.gt_count > 0
              THEN Reject(w, IllegalRangeCondition)
            ELSE IF w.write_only
              THEN Reject(w, RangeNotYetSupported)
            ELSE Outcome(OK, PushBack(w.ops, ColumnOp(col_desc, value, op)),
                         w.key_ops, increased)
     ELSE Reject(w, NonKeyColumnInWhere)

\* Mutant: on the read path an earlier comparison of either family rejects the leaf.
AnalyzeGreater_AnyRangeCounted(w, col_desc, op, value) ==
  LET counter == w.op_counters[col_desc.index]
      increased == [w.op_counters EXCEPT ![col_desc.index].gt_count = @ + 1]
  IN IF col_desc.is_hash
       THEN Reject(w, PartitionColumnInRangeExpr)
     ELSE IF col_desc.is_primary
       THEN IF w.write_only
              THEN Reject(w, RangeNotYetSupported)
            ELSE IF counter.eq_count > 0 \/ counter.gt_count > 0 \/ counter.lt_count > 0
              THEN Reject(w, IllegalRangeCondition)
            ELSE Outcome(OK, PushBack(w.ops, ColumnOp(col_desc, value, op)),
                         w.key_ops, increased)
     ELSE Reject(w, NonKeyColumnInWhere)

\* case YQL_OP_GREATER_THAN_EQUAL, YQL_OP_GREATER_THAN.
AnalyzeGreater(w, col_desc, op, value) ==
  LET counter == w.op_counters[col_desc.index]
      increased == [w.op_counters EXCEPT ![col_desc.index].gt_count = @ + 1]
  IN IF col_desc.is_hash
       THEN Reject(w, PartitionColumnInRangeExpr)
     ELSE IF col_desc.is_primary
       THEN IF w.write_only
              THEN Reject(w, RangeNotYetSupported)
            ELSE IF counter.eq_count > 0 \/ counter.gt_count > 0
              THEN Reject(w, IllegalRangeCondition)
            ELSE Outcome(OK, PushBack(w.ops, ColumnOp(col_desc, value, op)),
                         w.key_ops, increased)
     ELSE Reject(w, NonKeyColumnInWhere)

\* WhereExprState::AnalyzeColumnOp: the switch on expr->yql_op().
AnalyzeColumnOp(w, col_desc, op, value) ==
  CASE op = "EQ" -> AnalyzeEqual(w, col_desc, value)
    [] op \in RangeLT -> AnalyzeLess(w, col_desc, op, value)
    [] op \in RangeGT -> AnalyzeGreater(w, col_desc, op, value)
    [] OTHER -> Reject(w, UnsupportedOperator)

\* ---------------------------------------------------------------- post-pass
\* Mutant: a write of no static column counts as static-only too.
StaticColumnArgsOnly_NoStaticNeeded(column_args, table_columns, num_hash, num_key) ==
  IF Size(column_args) = 0 THEN FALSE
  ELSE LET write_range_columns ==
             \E idx \in num_hash..(num_key - 1) : column_args[idx]
           write_non_static_columns ==
             \E idx \in num_key..(Size(column_args) - 1) :
                column_args[idx] /\ ~table_columns[idx].is_static
       IN ~write_range_columns /\ ~write_non_static_columns

\* PTDmlStmt::StaticColumnArgsOnly on a column_args_ vector (entry = IsInitialized).
StaticColumnArgsOnly(column_args, table_columns, num_hash, num_key) ==
  IF Size(column_args) = 0 THEN FALSE
  ELSE LET write_range_columns ==
             \E idx \in num_hash..(num_key - 1) : column_args[idx]
           write_static_columns ==
             \E idx \in num_key..(Size(column_args) - 1) :
                column_args[idx] /\ table_columns[idx].is_static
           write_non_static_columns ==
             \E idx \in num_key..(Size(column_args) - 1) :
                column_args[idx] /\ ~table_columns[idx].is_static
       IN write_static_columns /\ ~write_range_columns /\ ~write_non_static_columns

\* Mutant: the loop over the hash columns starts one column late.
HashEntriesReferenced_FromSecond(op_counters, num_hash) ==
  \A idx \in 1..(num_hash - 1) : op_counters[idx].eq_count # 0

\* "Make sure that all hash entries are referenced in where expression."
HashEntriesReferenced(op_counters, num_hash) ==
  \A idx \in 0..(num_hash - 1) : op_counters[idx].eq_count # 0

\* range_keys: the clustering columns with an EQ.
RangeKeys(op_counters, num_hash, num_key) ==
  Cardinality({idx \in num_hash..(num_key - 1) : op_counters[idx].eq_count # 0})

\* Mutant: the all-or-none rule of static-only writes applied to every write.
WherePostWrite_StaticRuleAlways(key_ops, op_counters, static_only, num_hash, num_key) ==
  LET range_keys == RangeKeys(op_counters, num_hash, num_key)
  IN IF ~HashEntriesReferenced(op_counters, num_hash)
       THEN [status |-> MissingKeyCondition, key_ops |-> key_ops]
     ELSE IF range_keys # num_key - num_hash /\ range_keys # 0
       THEN [status |-> MissingKeyCondition, key_ops |-> key_ops]
     ELSE IF range_keys = 0
       THEN [status |-> OK, key_ops |-> Resize(key_ops, num_hash, NoColumnOp)]
     ELSE [status |-> OK, key_ops |-> key_ops]

\* Mutant: a static-only write without clustering EQ keeps its clustering slots.
WherePostWrite_NoShrink(key_ops, op_counters, static_only, num_hash, num_key) ==
  LET range_keys == RangeKeys(op_counters, num_hash, num_key)
  IN IF ~HashEntriesReferenced(op_counters, num_hash)
       THEN [status |-> MissingKeyCondition, key_ops |-> key_ops]
     ELSE IF static_only
       THEN IF range_keys # num_key - num_hash /\ range_keys # 0
              THEN [status |-> MissingKeyCondition, key_ops |-> key_ops]
            ELSE [status |-> OK, key_ops |-> key_ops]
     ELSE IF range_keys # num_key - num_hash
       THEN [status |-> MissingKeyCondition, key_ops |-> key_ops]
     ELSE [status |-> OK, key_ops |-> key_ops]

\* Mutant: a static-only write drops its clustering slots whether filled or not.
WherePostWrite_ShrinkAlways(key_ops, op_counters, static_only, num_hash, num_key) ==
  LET range_keys == RangeKeys(op_counters, num_hash, num_key)
  IN IF ~HashEntriesReferenced(op_counters, num_hash)
       THEN [status |-> MissingKeyCondition, key_ops |-> key_ops]
     ELSE IF static_only
       THEN IF range_keys # num_key - num_hash /\ range_keys # 0
              THEN [status |-> MissingKeyCondition, key_ops |-> key_ops]
            ELSE [status |-> OK, key_ops |-> Resize(key_ops, num_hash, NoColumnOp)]
     ELSE IF range_keys # num_key - num_hash
       THEN [status |-> MissingKeyCondition, key_ops |-> key_ops]
     ELSE [status |-> OK, key_ops |-> key_ops]

\* The write branch of AnalyzeWhereExpr after the walk: status and key_where_ops_.
WherePostWrite(key_ops, op_counters, static_only, num_hash, num_key) ==
  LET range_keys == RangeKeys(op_counters, num_hash, num_key)
  IN IF ~HashEntriesReferenced(op_counters, num_hash)
       THEN [status |-> MissingKeyCondition, key_ops |-> key_ops]
     ELSE IF static_only
       THEN IF range_keys # num_key - num_hash /\ range_keys # 0
              THEN [status |-> MissingKeyCondition, key_ops |-> key_ops]
            ELSE IF range_keys = 0
              THEN [status |-> OK, key_ops |-> Resize(key_ops, num_hash, NoColumnOp)]
            ELSE [status |-> OK, key_ops |-> key_ops]
     ELSE IF range_keys # num_key - num_hash
       THEN [status |-> MissingKeyCondition, key_ops |-> key_ops]
     ELSE [status |-> OK, key_ops |-> key_ops]

\* The loop "for idx = num_hash - 1 .. 0: if initialized, push_front", from idx down.
RECURSIVE MoveHashOps(_, _, _)
MoveHashOps(key_ops, ops, idx) ==
  IF idx < 0 THEN ops
  ELSE MoveHashOps(key_ops,
                   IF IsInitialized(key_ops[idx]) THEN PushFront(ops, key_ops[idx]) ELSE ops,
                   idx - 1)

\* Mutant: the filled hash slots are appended behind the filter ops.
WherePostRead_PushBack(key_ops, ops, num_hash) ==
  LET has_incomplete_hash == \E idx \in 0..(num_hash - 1) : ~IsInitialized(key_ops[idx])
      moved == MoveHashOps(key_ops, <<>>, num_hash - 1)
  IN IF has_incomplete_hash
       THEN [key_ops |-> EmptyVector, ops |-> ops \o moved]
       ELSE [key_ops |-> key_ops, ops |-> ops]

\* Mutant: the read degrades to a scan whether or not the hash key is complete.
WherePostRead_AlwaysScan(key_ops, ops, num_hash) ==
  [key_ops |-> EmptyVector, ops |-> MoveHashOps(key_ops, ops, num_hash - 1)]

\* The read branch of AnalyzeWhereExpr after the walk: key_where_ops_ and where_ops_.
WherePostRead(key_ops, ops, num_hash) ==
  LET has_incomplete_hash == \E idx \in 0..(num_hash - 1) : ~IsInitialized(key_ops[idx])
  IN IF has_incomplete_hash
       THEN [key_ops |-> EmptyVector, ops |-> MoveHashOps(key_ops, ops, num_hash - 1)]
       ELSE [key_ops |-> key_ops, ops |-> ops]

\* ---------------------------------------------------------------- state
VARIABLES
  pc,                    \* where the analysis of the statement stands
  status,                \* the Status of the last call that returned
  write_only,            \* write_only_
  is_system,             \* is_system_
  table_columns,         \* table_columns_: vector of ColumnDesc
  num_key_columns,       \* num_key_columns_
  num_hash_key_columns,  \* num_hash_key_columns_
  column_args,           \* column_args_: null, or a vector of IsInitialized flags
  key_where_ops,         \* key_where_ops_: vector of ColumnOp
  where_ops,             \* where_ops_: list of ColumnOp
  op_counters,           \* op_counters of the running AnalyzeWhereExpr
  walked,                \* the leaves of the WHERE expression analyzed so far
  ttl_seconds,           \* ttl_seconds_: null, or the value its Eval() returns
  bind_variables,        \* bind_variables_: per placeholder, whether it holds a bound value
  lookup                 \* the arguments of an observed LookupTable call

vars == <<pc, status, write_only, is_system, table_columns, num_key_columns,
          num_hash_key_columns, column_args, key_where_ops, where_ops, op_counters, walked,
          ttl_seconds, bind_variables, lookup>>

NullArgs == [null |-> TRUE, args |-> EmptyVector]
ArgsVector(v) == [null |-> FALSE, args |-> v]

num_columns == Size(table_columns)

\* A leaf comparison of the WHERE conjunction: column, operator and the value
\* expression, which is a tree node of its own (named by its place in the walk).
Leaf(col, op, value) == [col |-> col, op |-> op, value |-> value]

\* ttl_seconds_: no USING TTL clause, or a PTConstInt with its value.
NullTtl == [null |-> TRUE, value |-> 0]
Ttl(value) == [null |-> FALSE, value |-> value]

\* No LookupTable call was observed.
NoLookup == [called |-> FALSE, has_namespace |-> FALSE, name_system |-> FALSE,
             current_system |-> FALSE, flag |-> FALSE, found |-> FALSE,
             consulted |-> FALSE]

\* PTDmlStmt::PTDmlStmt(memctx, loc, write_only, ttl_seconds).
Construct(ttl) ==
  /\ ttl_seconds = ttl
  /\ bind_variables = <<>>
  /\ lookup = NoLookup
  /\ pc = "constructed"
  /\ status = OK
  /\ write_only \in BOOLEAN
  /\ is_system = FALSE
  /\ table_columns = EmptyVector
  /\ num_key_columns = 0
  /\ num_hash_key_columns = 0
  /\ column_args = NullArgs
  /\ key_where_ops = EmptyVector
  /\ where_ops = <<>>
  /\ op_counters = EmptyVector
  /\ walked = <<>>

\* A statement without a USING TTL clause.
Init == Construct(NullTtl)

\* PTDmlStmt::Analyze.
Analyze ==
  /\ pc = "constructed"
  /\ column_args' = ArgsVector(EmptyVector)
  /\ pc' = "analyzed"
  /\ status' = OK
  /\ UNCHANGED <<ttl_seconds, bind_variables, lookup>>
  /\ UNCHANGED <<write_only, is_system, table_columns, num_key_columns, num_hash_key_columns,
                 key_where_ops, where_ops, op_counters, walked>>

\* Mutant: the catalog is asked before the system keyspace is protected.
LookupOutcome_CatalogFirst(has_namespace, name_system, current_system, is_write, flag, found) ==
  LET resolved_system == IF has_namespace THEN name_system ELSE current_system
  IN IF ~found
       THEN [is_system |-> resolved_system, status |-> TableNotFound, consulted |-> TRUE]
     ELSE IF resolved_system /\ is_write /\ flag
       THEN [is_system |-> resolved_system, status |-> SystemNamespaceReadOnly,
             consulted |-> TRUE]
     ELSE [is_system |-> resolved_system, status |-> OK, consulted |-> TRUE]

\* PTDmlStmt::LookupTable up to the answer of the catalog. has_namespace and
\* name_system: whether table_name() carries a keyspace and whether that is the
\* system keyspace; current_system: whether CurrentKeyspace() is the system
\* keyspace; flag: FLAGS_yb_system_namespace_readonly; found: whether
\* GetTableDesc returns a table. consulted: whether GetTableDesc was called.
LookupOutcome(has_namespace, name_system, current_system, is_write, flag, found) ==
  LET resolved_system == IF has_namespace THEN name_system ELSE current_system
  IN IF resolved_system /\ is_write /\ flag
       THEN [is_system |-> resolved_system, status |-> SystemNamespaceReadOnly,
             consulted |-> FALSE]
     ELSE IF ~found
       THEN [is_system |-> resolved_system, status |-> TableNotFound, consulted |-> TRUE]
     ELSE [is_system |-> resolved_system, status |-> OK, consulted |-> TRUE]

\* PTDmlStmt::LookupTable on given arguments; schema is the schema of the
\* table GetTableDesc returns when it returns one.
LookupTableOn(has_namespace, name_system, current_system, flag, found, schema) ==
  LET r == LookupOutcome(has_namespace, name_system, current_system, write_only, flag, found)
  IN /\ is_system' = r.is_system
     /\ status' = r.status
     /\ IF r.status # OK
          THEN /\ pc' = "done"
               /\ UNCHANGED <<table_columns, num_key_columns, num_hash_key_columns>>
          ELSE /\ num_key_columns' = schema.num_key_columns
               /\ num_hash_key_columns' = schema.num_hash_key_columns
               /\ table_columns' =
                    [idx \in 0..(schema.num_columns - 1) |->
                       ColumnDesc(idx, schema.num_hash_key_columns, schema.num_key_columns,
                                  idx \in schema.statics)]
               /\ pc' = "table"
     /\ UNCHANGED <<ttl_seconds, bind_variables>>
     /\ UNCHANGED <<write_only, column_args, key_where_ops, where_ops, op_counters, walked>>

\* PTDmlStmt::LookupTable.
LookupTable ==
  /\ pc = "analyzed"
  /\ \E has_namespace \in BOOLEAN, name_system \in BOOLEAN, current_system \in BOOLEAN,
        flag \in BOOLEAN, found \in BOOLEAN, schema \in Schemas :
       LookupTableOn(has_namespace, name_system, current_system, flag, found, schema)
  /\ UNCHANGED lookup

\* PTDmlStmt::LookupTable, with the arguments of the call kept in lookup.
ObservedLookupTable ==
  /\ pc = "analyzed"
  /\ \E has_namespace \in BOOLEAN, name_system \in BOOLEAN, current_system \in BOOLEAN,
        flag \in BOOLEAN, found \in BOOLEAN, schema \in Schemas :
    /\ LookupTableOn(has_namespace, name_system, current_system, flag, found, schema)
    /\ lookup' = [called |-> TRUE, has_namespace |-> has_namespace,
                  name_system |-> name_system, current_system |-> current_system,
                  flag |-> flag, found |-> found,
                  consulted |-> LookupOutcome(has_namespace, name_system, current_system,
                                              write_only, flag, found).consulted]

\* The analysis of the assignment list of a write statement, done by the
\* statement's own Analyze before the WHERE clause: column_args_ gets one entry
\* per column and the assigned columns are initialized.
AnalyzeColumnArgs ==
  /\ pc = "table"
  /\ write_only
  /\ \E assigned \in SUBSET (0..(num_columns - 1)) :
       column_args' = ArgsVector([idx \in 0..(num_columns - 1) |-> idx \in assigned])
  /\ pc' = "args"
  /\ status' = OK
  /\ UNCHANGED <<ttl_seconds, bind_variables, lookup>>
  /\ UNCHANGED <<write_only, is_system, table_columns, num_key_columns, num_hash_key_columns,
                 key_where_ops, where_ops, op_counters, walked>>

\* Mutant: key_where_ops_ is resized before the clause is tested for null.
AnalyzeWhereClause_ResizeFirst ==
  /\ pc \in {"table", "args"}
  /\ key_where_ops' =
       Resize(key_where_ops, IF write_only THEN num_key_columns ELSE num_hash_key_columns,
              NoColumnOp)
  /\ \E where_clause_given \in BOOLEAN :
       IF ~where_clause_given
         THEN /\ status' = IF write_only THEN MissingPartitionKey ELSE OK
              /\ pc' = "done"
              /\ UNCHANGED op_counters
         ELSE /\ op_counters' = Resize(EmptyVector, num_columns, NoCount)
              /\ status' = OK
              /\ pc' = "where"
  /\ UNCHANGED <<ttl_seconds, bind_variables, lookup>>
  /\ UNCHANGED <<write_only, is_system, table_columns, num_key_columns, num_hash_key_columns,
                 column_args, where_ops, walked>>

\* PTDmlStmt::AnalyzeWhereClause up to the walk of the expression: the null
\* check, the resize of key_where_ops_, and the op_counters of AnalyzeWhereExpr.
AnalyzeWhereClause ==
  /\ pc \in {"table", "args"}
  /\ \E where_clause_given \in BOOLEAN :
       IF ~where_clause_given
         THEN /\ status' = IF write_only THEN MissingPartitionKey ELSE OK
              /\ pc' = "done"
              /\ UNCHANGED <<key_where_ops, op_counters>>
         ELSE /\ key_where_ops' =
                   Resize(key_where_ops,
                          IF write_only THEN num_key_columns ELSE num_hash_key_columns,
                          NoColumnOp)
              /\ op_counters' = Resize(EmptyVector, num_columns, NoCount)
              /\ status' = OK
              /\ pc' = "where"
  /\ UNCHANGED <<ttl_seconds, bind_variables, lookup>>
  /\ UNCHANGED <<write_only, is_system, table_columns, num_key_columns, num_hash_key_columns,
                 column_args, where_ops, walked>>

\* expr->Analyze reaching one leaf: the call of AnalyzeColumnOp for it. An
\* error ends the analysis of the statement (RETURN_NOT_OK).
WalkLeaf ==
  /\ pc = "where"
  /\ Len(walked) < MaxLeaves
  /\ \E col \in 0..(num_columns - 1), op \in Operators :
       LET value == Len(walked) + 1
           r == AnalyzeColumnOp(WhereExprState(where_ops, key_where_ops, op_counters, write_only),
                                table_columns[col], op, value)
       IN /\ walked' = Append(walked, Leaf(col, op, value))
          /\ where_ops' = r.ops
          /\ key_where_ops' = r.key_ops
          /\ op_counters' = r.op_counters
          /\ status' = r.status
          /\ pc' = IF r.status = OK THEN "where" ELSE "done"
  /\ UNCHANGED <<ttl_seconds, bind_variables, lookup>>
  /\ UNCHANGED <<write_only, is_system, table_columns, num_key_columns, num_hash_key_columns,
                 column_args>>

\* PTDmlStmt::AnalyzeWhereExpr after expr->Analyze returned OK.
WherePostPass ==
  /\ pc = "where"
  /\ Len(walked) >= 1
  /\ IF write_only
       THEN LET r == WherePostWrite(key_where_ops, op_counters,
                                    StaticColumnArgsOnly(column_args.args, table_columns,
                                                         num_hash_key_columns, num_key_columns),
                                    num_hash_key_columns, num_key_columns)
            IN /\ status' = r.status
               /\ key_where_ops' = r.key_ops
               /\ UNCHANGED where_ops
       ELSE LET r == WherePostRead(key_where_ops, where_ops, num_hash_key_columns)
            IN /\ status' = OK
               /\ key_where_ops' = r.key_ops
               /\ where_ops' = r.ops
  /\ pc' = "done"
  /\ UNCHANGED <<ttl_seconds, bind_variables, lookup>>
  /\ UNCHANGED <<write_only, is_system, table_columns, num_key_columns, num_hash_key_columns,
                 column_args, op_counters, walked>>

Next ==
  \/ Analyze
  \/ LookupTable
  \/ AnalyzeColumnArgs
  \/ AnalyzeWhereClause
  \/ WalkLeaf
  \/ WherePostPass

Spec == Init /\ [][Next]_vars

\* ---------------------------------------------------------------- rebinding
\* Largest number of bound-parameter placeholders of a statement.
MaxBindVariables == 2
\* Largest table and longest WHERE conjunction of the statements that are
\* followed through execution, Reset() and the USING clause.
SmallColumns == 2
SmallLeaves == 2

\* The parser registers one more placeholder in bind_variables_; it holds no value.
AddBindVariable ==
  /\ pc = "constructed"
  /\ Len(bind_variables) < MaxBindVariables
  /\ bind_variables' = Append(bind_variables, FALSE)
  /\ UNCHANGED <<pc, status, ttl_seconds, lookup>>
  /\ UNCHANGED <<write_only, is_system, table_columns, num_key_columns, num_hash_key_columns,
                 column_args, key_where_ops, where_ops, op_counters, walked>>

\* An execution of the analyzed statement supplies a value for every placeholder.
BindVariables ==
  /\ pc \in {"done", "reset"}
  /\ status = OK
  /\ bind_variables' = [i \in 1..Len(bind_variables) |-> TRUE]
  /\ pc' = "bound"
  /\ UNCHANGED <<status, ttl_seconds, lookup>>
  /\ UNCHANGED <<write_only, is_system, table_columns, num_key_columns, num_hash_key_columns,
                 column_args, key_where_ops, where_ops, op_counters, walked>>

\* Mutant: Reset() also forgets the results of the WHERE analysis.
Reset_ClearingWhereOps ==
  /\ pc \in {"done", "bound", "reset"}
  /\ bind_variables' = [i \in 1..Len(bind_variables) |-> FALSE]
  /\ column_args' = NullArgs
  /\ key_where_ops' = EmptyVector
  /\ where_ops' = <<>>
  /\ pc' = "reset"
  /\ UNCHANGED <<status, ttl_seconds, lookup>>
  /\ UNCHANGED <<write_only, is_system, table_columns, num_key_columns, num_hash_key_columns,
                 op_counters, walked>>

\* PTDmlStmt::Reset: every placeholder is reset and column_args_ becomes null.
Reset ==
  /\ pc \in {"done", "bound", "reset"}
  /\ bind_variables' = [i \in 1..Len(bind_variables) |-> FALSE]
  /\ column_args' = NullArgs
  /\ pc' = "reset"
  /\ UNCHANGED <<status, ttl_seconds, lookup>>
  /\ UNCHANGED <<write_only, is_system, table_columns, num_key_columns, num_hash_key_columns,
                 key_where_ops, where_ops, op_counters, walked>>

\* LookupTable and the walk of the WHERE clause on the small statements.
SmallLookupTable == LookupTable /\ Size(table_columns') <= SmallColumns
SmallWalkLeaf == Len(walked) < SmallLeaves /\ WalkLeaf

NextReset ==
  \/ AddBindVariable
  \/ Analyze
  \/ SmallLookupTable
  \/ AnalyzeColumnArgs
  \/ AnalyzeWhereClause
  \/ SmallWalkLeaf
  \/ WherePostPass
  \/ BindVariables
  \/ Reset

\* Statements that are prepared, executed and reset.
SpecReset == Init /\ [][NextReset]_vars

\* ---------------------------------------------------------------- table resolution
NextLookup ==
  \/ Analyze
  \/ ObservedLookupTable

\* Statements up to the resolution of their table, the call's arguments kept.
SpecLookup == Init /\ [][NextLookup]_vars

\* ---------------------------------------------------------------- USING clause
\* yb::common::kMinTtlSeconds and kMaxTtlSeconds, and the range test on them.
kMinTtlSeconds == 0
kMaxTtlSeconds == 630720000
IsValidTTLSeconds(ttl) == ttl >= kMinTtlSeconds /\ ttl <= kMaxTtlSeconds

\* Mutant: only the upper end of the range is tested.
UsingClauseStatus_UpperEndOnly(ttl) ==
  IF ttl.null
    THEN OK
    ELSE IF ~(ttl.value <= kMaxTtlSeconds) THEN InvalidTtl ELSE OK

\* The status AnalyzeUsingClause returns for the statement's ttl_seconds_.
UsingClauseStatus(ttl) ==
  IF ttl.null
    THEN OK
    ELSE IF ~IsValidTTLSeconds(ttl.value) THEN InvalidTtl ELSE OK

\* PTDmlStmt::AnalyzeUsingClause, called once the WHERE clause has been analyzed.
AnalyzeUsingClause ==
  /\ pc = "done"
  /\ status = OK
  /\ status' = UsingClauseStatus(ttl_seconds)
  /\ pc' = "used"
  /\ UNCHANGED <<ttl_seconds, bind_variables, lookup>>
  /\ UNCHANGED <<write_only, is_system, table_columns, num_key_columns, num_hash_key_columns,
                 column_args, key_where_ops, where_ops, op_counters, walked>>

\* The values a TTL expression evaluates to: both ends of the range and their neighbours.
TtlValues == {kMinTtlSeconds - 1, kMinTtlSeconds, kMinTtlSeconds + 1,
              kMaxTtlSeconds - 1, kMaxTtlSeconds, kMaxTtlSeconds + 1}

\* A statement is constructed with or without a TTL expression.
InitUsing == \E ttl \in {NullTtl} \cup {Ttl(v) : v \in TtlValues} : Construct(ttl)

NextUsing ==
  \/ Analyze
  \/ SmallLookupTable
  \/ AnalyzeColumnArgs
  \/ AnalyzeWhereClause
  \/ SmallWalkLeaf
  \/ WherePostPass
  \/ AnalyzeUsingClause

\* Statements with a USING clause.
SpecUsing == InitUsing /\ [][NextUsing]_vars

\* ---------------------------------------------------------------- the analysis as a function
OrderColumns == 3
OrderLeaves == 3

\* expr->Analyze over the leaves of a conjunction, in their order: one call of
\* AnalyzeColumnOp per leaf, the first error returned.
RECURSIVE WalkLeaves(_, _, _)
WalkLeaves(w, leaves, columns) ==
  IF leaves = <<>>
    THEN Outcome(OK, w.ops, w.key_ops, w.op_counters)
    ELSE LET leaf == Head(leaves)
             r == AnalyzeColumnOp(w, columns[leaf.col], leaf.op, leaf.value)
         IN IF r.status # OK
              THEN r
              ELSE WalkLeaves(WhereExprState(r.ops, r.key_ops, r.op_counters, w.write_only),
                              Tail(leaves), columns)

\* AnalyzeWhereClause with a WHERE clause of these leaves, on a statement whose
\* table is resolved and whose key_where_ops_ and where_ops_ are still empty.
AnalyzeWhereExpr(leaves, is_write, columns, num_hash, num_key, args) ==
  LET key_ops == Resize(EmptyVector, IF is_write THEN num_key ELSE num_hash, NoColumnOp)
      counters == Resize(EmptyVector, Size(columns), NoCount)
      r == WalkLeaves(WhereExprState(<<>>, key_ops, counters, is_write), leaves, columns)
  IN IF r.status # OK
       THEN [status |-> r.status, key_ops |-> r.key_ops, ops |-> r.ops]
     ELSE IF is_write
       THEN LET p == WherePostWrite(r.key_ops, r.op_counters,
                                    StaticColumnArgsOnly(args, columns, num_hash, num_key),
                                    num_hash, num_key)
            IN [status |-> p.status, key_ops |-> p.key_ops, ops |-> r.ops]
     ELSE LET p == WherePostRead(r.key_ops, r.ops, num_hash)
          IN [status |-> OK, key_ops |-> p.key_ops, ops |-> p.ops]

\* LookupTable and the walk of the WHERE clause on the statements whose leaves
\* are reordered.
OrderLookupTable == LookupTable /\ Size(table_columns') <= OrderColumns
OrderWalkLeaf == Len(walked) < OrderLeaves /\ WalkLeaf

NextOrder ==
  \/ Analyze
  \/ OrderLookupTable
  \/ AnalyzeColumnArgs
  \/ AnalyzeWhereClause
  \/ OrderWalkLeaf
  \/ WherePostPass

\* Statements whose WHERE clause has at most OrderLeaves leaves.
SpecOrder == Init /\ [][NextOrder]_vars

\* ---------------------------------------------------------------- vocabulary of the properties
Comparisons == {"EQ"} \cup RangeLT \cup RangeGT
RangeOps == RangeLT \cup RangeGT

IsHashColumn(col) == table_columns[col].is_hash
IsClusteringColumn(col) == table_columns[col].is_primary /\ ~table_columns[col].is_hash
IsRegularColumn(col) == ~table_columns[col].is_primary

HashColumns == 0..(num_hash_key_columns - 1)
ClusteringColumns == num_hash_key_columns..(num_key_columns - 1)

\* The ColumnOp a leaf is recorded as.
ColumnOpOf(leaf) == [desc |-> leaf.col, expr |-> leaf.value, yql_op |-> leaf.op]

\* The leaf most recently handed to AnalyzeColumnOp.
LastLeaf == walked[Len(walked)]

\* A step that analyzes one more leaf, and that leaf.
LeafStep == walked' # walked
NewLeaf == walked'[Len(walked')]

\* A WHERE clause was given and its walk is over.
WhereDone == pc = "done" /\ Len(walked) >= 1
\* ... and every leaf of it was accepted, so the post-pass ran.
WalkAccepted == WhereDone /\ status \notin LeafErrors

\* The step that is the post-pass of AnalyzeWhereExpr.
PostPassStep == pc = "where" /\ pc' = "done" /\ walked' = walked

EqRecorded(idx) == op_counters[idx].eq_count > 0
ClusteringEqCount == Cardinality({idx \in ClusteringColumns : EqRecorded(idx)})
AllHashEq == \A idx \in HashColumns : EqRecorded(idx)
FullRange == num_key_columns - num_hash_key_columns

StaticOnly ==
  StaticColumnArgsOnly(column_args.args, table_columns, num_hash_key_columns, num_key_columns)

\* ---------------------------------------------------------------- C1
\* C1: in a write statement whose leaves were all accepted, a hash column
\* without a recorded EQ makes the analysis fail with MissingKeyCondition; when
\* the analysis succeeds every hash column has exactly one recorded EQ.
C1_WriteNeedsEveryHashEq ==
  (WalkAccepted /\ write_only) =>
    /\ (\E idx \in HashColumns : op_counters[idx].eq_count = 0) => status = MissingKeyCondition
    /\ status = OK => \A idx \in HashColumns : op_counters[idx].eq_count = 1

\* A write with two hash columns, one given and one missing, that failed.
C1_Witness ==
  /\ WalkAccepted /\ write_only
  /\ status = MissingKeyCondition
  /\ \E i \in HashColumns, j \in HashColumns :
       op_counters[i].eq_count = 1 /\ op_counters[j].eq_count = 0

\* ---------------------------------------------------------------- C2
\* C2: a write that is not static-only and has an EQ on every hash column
\* succeeds iff every clustering column has an EQ; otherwise it fails with
\* MissingKeyCondition; on success key_slots has length num_key_columns.
C2_NonStaticWriteNeedsFullKey ==
  (WalkAccepted /\ write_only /\ ~StaticOnly /\ AllHashEq) =>
    /\ status = OK <=> ClusteringEqCount = FullRange
    /\ ClusteringEqCount < FullRange => status = MissingKeyCondition
    /\ status = OK => Size(key_where_ops) = num_key_columns

\* UPDATE T SET r = 1 WHERE h = 5: a regular column is assigned, the hash key
\* is given, the clustering key is not.
C2_Witness ==
  /\ WalkAccepted /\ write_only /\ ~StaticOnly /\ AllHashEq
  /\ \E idx \in DOMAIN column_args.args :
       column_args.args[idx] /\ IsRegularColumn(idx) /\ ~table_columns[idx].is_static
  /\ ClusteringEqCount < FullRange
  /\ status = MissingKeyCondition

\* ---------------------------------------------------------------- C3
\* C3: a static-only write with an EQ on every hash column succeeds iff it has
\* an EQ on none or on all of the clustering columns, and fails with
\* MissingKeyCondition in between; with none key_slots is shrunk to
\* num_hash_columns, with all it keeps length num_key_columns.
C3_StaticWriteAllOrNoRange ==
  (WalkAccepted /\ write_only /\ StaticOnly /\ AllHashEq) =>
    /\ status = OK <=> ClusteringEqCount \in {0, FullRange}
    /\ (0 < ClusteringEqCount /\ ClusteringEqCount < FullRange) => status = MissingKeyCondition
    /\ ClusteringEqCount = 0 => (status = OK /\ Size(key_where_ops) = num_hash_key_columns)
    /\ ClusteringEqCount = FullRange => (status = OK /\ Size(key_where_ops) = num_key_columns)

\* UPDATE T SET s = 1 WHERE h = 5 on a table with a clustering column.
C3_Witness ==
  /\ WalkAccepted /\ write_only /\ StaticOnly /\ AllHashEq
  /\ FullRange > 0
  /\ ClusteringEqCount = 0
  /\ status = OK
  /\ Size(key_where_ops) = num_hash_key_columns

\* ---------------------------------------------------------------- C4
\* The initialized slots among key_ops[0..n-1], by increasing column index.
RECURSIVE FilledSlots(_, _)
FilledSlots(key_ops, n) ==
  IF n = 0 THEN <<>>
  ELSE IF IsInitialized(key_ops[n - 1])
    THEN Append(FilledSlots(key_ops, n - 1), key_ops[n - 1])
    ELSE FilledSlots(key_ops, n - 1)

\* C4: the post-pass of a read statement with an unfilled hash slot succeeds,
\* empties key_slots and leaves in filter_ops the hash predicates that were in
\* slots, by increasing column index, followed by the filter ops that were
\* there before, in their order: nothing lost, nothing duplicated.
C4_PartialHashReadMovesSlots ==
  [][ (PostPassStep /\ ~write_only
         /\ \E idx \in HashColumns : ~IsInitialized(key_where_ops[idx]))
      => /\ status' = OK
         /\ Size(key_where_ops') = 0
         /\ where_ops' = FilledSlots(key_where_ops, num_hash_key_columns) \o where_ops ]_vars

\* WHERE c > 1 AND h3 = 2 AND h1 = 3 on a table with three hash columns: after
\* the post-pass filter_ops is h1, h3, c.
C4_Witness ==
  /\ WalkAccepted /\ ~write_only /\ status = OK
  /\ num_hash_key_columns = 3
  /\ Len(walked) = 3
  /\ IsClusteringColumn(walked[1].col) /\ walked[1].op = "GT"
  /\ walked[2].col = 2 /\ walked[2].op = "EQ"
  /\ walked[3].col = 0 /\ walked[3].op = "EQ"
  /\ Size(key_where_ops) = 0
  /\ where_ops = <<ColumnOpOf(walked[3]), ColumnOpOf(walked[2]), ColumnOpOf(walked[1])>>

\* ---------------------------------------------------------------- C5
NonHashLeaf(leaf) == ~IsHashColumn(leaf.col)
LeavesAsOps(leaves) == [i \in 1..Len(leaves) |-> ColumnOpOf(leaves[i])]
HashLeafGiven(idx) == \E i \in 1..Len(walked) : walked[i].col = idx /\ walked[i].op = "EQ"

\* C5: a read statement whose accepted leaves give an EQ on every hash column
\* ends with key_slots of length num_hash_columns, each slot holding the EQ of
\* its hash column, and filter_ops holding exactly the accepted non-hash leaves
\* in the order of the walk.
C5_CompleteHashReadKeepsSlots ==
  (WalkAccepted /\ ~write_only /\ \A idx \in HashColumns : HashLeafGiven(idx)) =>
    /\ status = OK
    /\ Size(key_where_ops) = num_hash_key_columns
    /\ \A idx \in HashColumns :
         \E i \in 1..Len(walked) :
            walked[i].col = idx /\ key_where_ops[idx] = ColumnOpOf(walked[i])
    /\ where_ops = LeavesAsOps(SelectSeq(walked, NonHashLeaf))

\* SELECT * FROM T WHERE h = 5 AND c > 3.
C5_Witness ==
  /\ WalkAccepted /\ ~write_only /\ status = OK
  /\ num_hash_key_columns = 1
  /\ Len(walked) = 2
  /\ walked[1].col = 0 /\ walked[1].op = "EQ"
  /\ IsClusteringColumn(walked[2].col) /\ walked[2].op = "GT"
  /\ Size(key_where_ops) = 1
  /\ key_where_ops[0] = ColumnOpOf(walked[1])
  /\ where_ops = <<ColumnOpOf(walked[2])>>

\* ---------------------------------------------------------------- C6
\* C6: a range comparison on a hash column is rejected with
\* PartitionColumnInRangeExpr in read and write statements, whatever was
\* recorded for the column, and changes neither the counters, key_slots nor
\* filter_ops.
C6_RangeOnHashRejected ==
  [][ (LeafStep /\ NewLeaf.op \in RangeOps /\ IsHashColumn(NewLeaf.col))
      => /\ status' = PartitionColumnInRangeExpr
         /\ pc' = "done"
         /\ UNCHANGED <<op_counters, key_where_ops, where_ops>> ]_vars

\* A write statement: h = 1 AND h < 2.
C6_Witness ==
  /\ WhereDone /\ write_only
  /\ LastLeaf.op \in RangeLT /\ IsHashColumn(LastLeaf.col)
  /\ op_counters[LastLeaf.col].eq_count = 1
  /\ status = PartitionColumnInRangeExpr

\* ---------------------------------------------------------------- C7
\* C7: in a write statement a range comparison on a clustering column is
\* rejected with RangeNotYetSupported whatever was recorded for the column; no
\* write statement records an LT-family or GT-family count or has a range op
\* in filter_ops.
C7_WriteRangeOnClusteringRejected ==
  write_only =>
    /\ (Len(walked) >= 1 /\ LastLeaf.op \in RangeOps /\ IsClusteringColumn(LastLeaf.col))
         => (status = RangeNotYetSupported /\ pc = "done")
    /\ \A idx \in DOMAIN op_counters :
         op_counters[idx].lt_count = 0 /\ op_counters[idx].gt_count = 0
    /\ \A i \in 1..Len(where_ops) : where_ops[i].yql_op \notin RangeOps

\* A write statement: c = 1 AND c >= 2 on a clustering column c.
C7_Witness ==
  /\ WhereDone /\ write_only
  /\ LastLeaf.op \in RangeGT /\ IsClusteringColumn(LastLeaf.col)
  /\ op_counters[LastLeaf.col].eq_count = 1
  /\ status = RangeNotYetSupported

\* ---------------------------------------------------------------- C8
Recorded(counter) == counter.eq_count > 0 \/ counter.lt_count > 0 \/ counter.gt_count > 0

\* C8: an EQ leaf on a column that already has an accepted comparison is
\* rejected, in read and write statements and for every column role; so each
\* column has at most one recorded EQ, and none beside a recorded range
\* comparison.
C8_EqAfterComparisonRejected ==
  [][ LeafStep =>
        /\ (NewLeaf.op = "EQ" /\ Recorded(op_counters[NewLeaf.col]))
             => (status' # OK /\ pc' = "done")
        /\ \A idx \in DOMAIN op_counters' :
             /\ op_counters'[idx].eq_count <= 1
             /\ op_counters'[idx].eq_count = 1 =>
                  (op_counters'[idx].lt_count = 0 /\ op_counters'[idx].gt_count = 0) ]_vars

\* A read statement: c > 1 AND c = 2 on a clustering column c.
C8_Witness ==
  /\ WhereDone /\ ~write_only
  /\ LastLeaf.op = "EQ" /\ IsClusteringColumn(LastLeaf.col)
  /\ op_counters[LastLeaf.col].gt_count = 1
  /\ op_counters[LastLeaf.col].eq_count = 0
  /\ status = IllogicalCondition

\* ---------------------------------------------------------------- C9
\* C9 as stated: in a read statement a comparison on a regular column is
\* accepted and appended to filter_ops.
C9_ReadRegularColumnFiltered ==
  (~write_only /\ Len(walked) >= 1 /\ LastLeaf.op \in Comparisons /\ IsRegularColumn(LastLeaf.col))
    => /\ status = OK
       /\ Len(where_ops) >= 1
       /\ where_ops[Len(where_ops)] = ColumnOpOf(LastLeaf)

\* C9 amended: in a read statement a comparison (EQ, LT, LTE, GT or GTE) on a
\* regular column is rejected with NonKeyColumnInWhere, and filter_ops never
\* holds a predicate on a regular column.
C9_ReadRegularColumnRejected ==
  ~write_only =>
    /\ (Len(walked) >= 1 /\ LastLeaf.op \in Comparisons /\ IsRegularColumn(LastLeaf.col))
         => (status = NonKeyColumnInWhere /\ pc = "done")
    /\ \A i \in 1..Len(where_ops) : ~IsRegularColumn(where_ops[i].desc)

\* A read statement: h = 1 AND r < 2 on a regular column r.
C9_Witness ==
  /\ WhereDone /\ ~write_only
  /\ Len(walked) = 2
  /\ walked[1].op = "EQ" /\ IsHashColumn(walked[1].col)
  /\ LastLeaf.op = "LT" /\ IsRegularColumn(LastLeaf.col)
  /\ status = NonKeyColumnInWhere
  /\ where_ops = <<>>

\* ---------------------------------------------------------------- C10
\* C10: in a write statement a comparison on a regular column is rejected with
\* NonKeyColumnInWhere and adds nothing to key_slots or filter_ops.
C10_WriteRegularColumnRejected ==
  [][ (LeafStep /\ write_only /\ NewLeaf.op \in Comparisons /\ IsRegularColumn(NewLeaf.col))
      => /\ status' = NonKeyColumnInWhere
         /\ pc' = "done"
         /\ UNCHANGED <<key_where_ops, where_ops>> ]_vars

\* A write statement: h = 1 AND r = 2 on a regular column r.
C10_Witness ==
  /\ WhereDone /\ write_only
  /\ Len(walked) = 2
  /\ walked[1].op = "EQ" /\ IsHashColumn(walked[1].col)
  /\ LastLeaf.op = "EQ" /\ IsRegularColumn(LastLeaf.col)
  /\ status = NonKeyColumnInWhere
  /\ IsInitialized(key_where_ops[walked[1].col])

\* ---------------------------------------------------------------- C11
\* AnalyzeWhereClause returned for a statement without WHERE clause.
NoWhereClauseDone ==
  pc = "done" /\ Len(walked) = 0 /\ status \notin {SystemNamespaceReadOnly, TableNotFound}

\* C11: without a WHERE clause AnalyzeWhereClause fails with
\* MissingPartitionKey for a write statement, and for a read statement succeeds
\* and leaves key_slots and filter_ops as they were: empty.
C11_NoWhereClause ==
  NoWhereClauseDone =>
    IF write_only
      THEN status = MissingPartitionKey
      ELSE status = OK /\ Size(key_where_ops) = 0 /\ where_ops = <<>>

\* SELECT * FROM T on a table with two hash columns: a full scan.
C11_Witness ==
  /\ NoWhereClauseDone /\ ~write_only
  /\ num_hash_key_columns = 2
  /\ status = OK
  /\ Size(key_where_ops) = 0 /\ where_ops = <<>>

\* ---------------------------------------------------------------- C12
\* The column args of a write statement that are populated.
Populated == {idx \in DOMAIN column_args.args : column_args.args[idx]}
NoClusteringArg == \A idx \in Populated : idx \notin ClusteringColumns
OtherArgsStatic == \A idx \in Populated : idx >= num_key_columns => table_columns[idx].is_static

\* C12 as stated: StaticColumnArgsOnly() is true iff (a) some column arg is
\* populated, (b) none of the populated ones is a clustering column and (c)
\* every populated one beyond the key columns is static.
C12_StaticOnlyIffAnyArg ==
  (write_only /\ ~column_args.null) =>
    (StaticOnly <=> (Populated # {} /\ NoClusteringArg /\ OtherArgsStatic))

\* C12 amended: StaticColumnArgsOnly() is true iff (a) some populated column
\* arg beyond the key columns is a static column, (b) none of the populated
\* ones is a clustering column and (c) every populated one beyond the key
\* columns is static; with only hash-column args populated it is false.
C12_StaticOnlyIffStaticArg ==
  (write_only /\ ~column_args.null) =>
    /\ StaticOnly <=>
         /\ \E idx \in Populated : idx >= num_key_columns /\ table_columns[idx].is_static
         /\ NoClusteringArg
         /\ OtherArgsStatic
    /\ (Populated # {} /\ Populated \subseteq HashColumns) => ~StaticOnly

\* Only the hash column is assigned and the table has a static column; the
\* WHERE clause gives the hash key alone, and the post-pass, which took the
\* write for not static-only, asks for the clustering key.
C12_Witness ==
  /\ WalkAccepted /\ write_only
  /\ Populated # {} /\ Populated \subseteq HashColumns
  /\ \E idx \in DOMAIN table_columns : table_columns[idx].is_static
  /\ AllHashEq /\ ClusteringEqCount = 0 /\ FullRange > 0
  /\ status = MissingKeyCondition

\* ---------------------------------------------------------------- C13
\* The WHERE analysis of the statement failed, at a leaf or in the post-pass.
WhereFailed == WhereDone /\ status # OK
\* The leaves that were accepted: all of them, or all but the rejected last one.
AcceptedLeaves ==
  IF status \in LeafErrors THEN SubSeq(walked, 1, Len(walked) - 1) ELSE walked
InKeySlot(leaf) ==
  leaf.col \in DOMAIN key_where_ops /\ key_where_ops[leaf.col] = ColumnOpOf(leaf)
InFilterOps(leaf) == \E i \in 1..Len(where_ops) : where_ops[i] = ColumnOpOf(leaf)
FilledKeySlots == {idx \in DOMAIN key_where_ops : IsInitialized(key_where_ops[idx])}

\* C13 as stated: after a failed WHERE analysis key_slots and filter_ops hold
\* no predicate recorded by the leaves accepted before the failure.
C13_FailureDiscardsResults ==
  WhereFailed => (FilledKeySlots = {} /\ where_ops = <<>>)

\* C13 amended: after a failed WHERE analysis key_slots and filter_ops are left
\* as they were when the failure occurred: they hold exactly the predicates
\* recorded by the leaves accepted before the failure, none discarded.
C13_FailureKeepsResults ==
  WhereFailed =>
    /\ \A i \in 1..Len(AcceptedLeaves) :
         InKeySlot(AcceptedLeaves[i]) \/ InFilterOps(AcceptedLeaves[i])
    /\ Cardinality(FilledKeySlots) + Len(where_ops) = Len(AcceptedLeaves)

\* A read statement: h = 1 AND c > 2 AND c = 3; the third leaf is rejected and
\* the first two stay recorded.
C13_Witness ==
  /\ WhereFailed /\ ~write_only
  /\ Len(walked) = 3
  /\ status = IllogicalCondition
  /\ IsInitialized(key_where_ops[0])
  /\ where_ops = <<ColumnOpOf(walked[2])>>

\* ---------------------------------------------------------------- C14
\* A step that is a call of Reset().
ResetStep == pc' = "reset"

\* C14: Reset() resets every bound-parameter placeholder and drops
\* write_column_args, and leaves the catalog, key_slots and filter_ops as they
\* are, however often it is called on an analyzed statement.
C14_ResetKeepsAnalysis ==
  [][ ResetStep =>
        /\ Len(bind_variables') = Len(bind_variables)
        /\ \A i \in 1..Len(bind_variables') : ~bind_variables'[i]
        /\ column_args'.null
        /\ UNCHANGED <<table_columns, num_key_columns, num_hash_key_columns,
                       key_where_ops, where_ops>> ]_vars

\* A reset read statement WHERE h = 1 AND c > 2 with a placeholder: the key
\* slot and the filter op are still there.
C14_Witness ==
  /\ pc = "reset" /\ status = OK /\ ~write_only
  /\ Len(bind_variables) >= 1 /\ \A i \in 1..Len(bind_variables) : ~bind_variables[i]
  /\ column_args.null
  /\ Len(walked) = 2
  /\ Size(key_where_ops) = 1 /\ key_where_ops[0] = ColumnOpOf(walked[1])
  /\ where_ops = <<ColumnOpOf(walked[2])>>

\* ---------------------------------------------------------------- C15
\* Whether the keyspace the table name resolves to is the system keyspace: its
\* own keyspace, or the current keyspace when it carries none.
ResolvedSystem ==
  IF lookup.has_namespace THEN lookup.name_system ELSE lookup.current_system

\* C15: LookupTable fails with SystemNamespaceReadOnly iff the resolved
\* keyspace is the system keyspace, the statement is a write and the read-only
\* flag is set, and then the catalog is not consulted; otherwise it fails with
\* TableNotFound iff the catalog returns no table; an unqualified name is
\* qualified with the current keyspace before either check.
C15_LookupTableErrors ==
  lookup.called =>
    /\ status = SystemNamespaceReadOnly <=> (ResolvedSystem /\ write_only /\ lookup.flag)
    /\ status = SystemNamespaceReadOnly => ~lookup.consulted
    /\ status # SystemNamespaceReadOnly =>
         /\ lookup.consulted
         /\ status = TableNotFound <=> ~lookup.found
         /\ status = OK <=> lookup.found
    /\ is_system = ResolvedSystem

\* A write to an unqualified table name while the current keyspace is the
\* system keyspace and the flag is set; the catalog would not have found it.
C15_Witness ==
  /\ lookup.called /\ write_only
  /\ ~lookup.has_namespace /\ ~lookup.name_system /\ lookup.current_system
  /\ lookup.flag /\ ~lookup.found
  /\ status = SystemNamespaceReadOnly
  /\ pc = "done"

\* ---------------------------------------------------------------- C16
\* AnalyzeUsingClause has returned.
UsingDone == pc = "used"

\* C16: AnalyzeUsingClause succeeds when no TTL expression is present; when one
\* is present it succeeds iff its value lies in [kMinTtlSeconds, kMaxTtlSeconds]
\* and fails with InvalidTtl otherwise; the range being [0, 630720000], the
\* value -1 fails and the value 0 succeeds.
C16_TtlRange ==
  UsingDone =>
    /\ ttl_seconds.null => status = OK
    /\ ~ttl_seconds.null =>
         /\ status = OK <=>
              (kMinTtlSeconds <= ttl_seconds.value /\ ttl_seconds.value <= kMaxTtlSeconds)
         /\ status # OK => status = InvalidTtl
         /\ ttl_seconds.value = -1 => status = InvalidTtl
         /\ ttl_seconds.value = 0 => status = OK
    /\ kMinTtlSeconds = 0 /\ kMaxTtlSeconds = 630720000

\* A USING clause whose TTL is -1 has been rejected.
C16_Witness ==
  /\ UsingDone
  /\ ~ttl_seconds.null /\ ttl_seconds.value = -1
  /\ status = InvalidTtl

\* ---------------------------------------------------------------- C17
\* The counters of a column after one more comparison of the family of op.
FamilyIncreased(counter, op) ==
  IF op \in RangeLT
    THEN [counter EXCEPT !.lt_count = @ + 1]
    ELSE [counter EXCEPT !.gt_count = @ + 1]

\* The column has a recorded EQ or a recorded comparison of the family of op.
FamilyTaken(counter, op) ==
  \/ counter.eq_count > 0
  \/ op \in RangeLT /\ counter.lt_count > 0
  \/ op \in RangeGT /\ counter.gt_count > 0

\* C17: in a read statement, a range leaf on a clustering column is rejected
\* with IllegalRangeCondition iff the column already has a recorded EQ or a
\* recorded comparison of the same family (LT/LTE, or GT/GTE); otherwise it is
\* accepted, its family counter is incremented and it is appended to where_ops.
\* The LT-family and GT-family counts of the column never exceed 1.
C17_ReadRangeOnClustering ==
  [][(LeafStep /\ ~write_only /\ IsClusteringColumn(NewLeaf.col) /\ NewLeaf.op \in RangeOps) =>
       LET col == NewLeaf.col
           counter == op_counters[col]
       IN /\ status' = IllegalRangeCondition <=> FamilyTaken(counter, NewLeaf.op)
          /\ FamilyTaken(counter, NewLeaf.op) =>
               /\ op_counters' = op_counters
               /\ where_ops' = where_ops
          /\ ~FamilyTaken(counter, NewLeaf.op) =>
               /\ status' = OK
               /\ op_counters' = [op_counters EXCEPT ![col] = FamilyIncreased(counter, NewLeaf.op)]
               /\ where_ops' = Append(where_ops, ColumnOpOf(NewLeaf))
          /\ key_where_ops' = key_where_ops
          /\ op_counters'[col].lt_count <= 1
          /\ op_counters'[col].gt_count <= 1]_vars

\* A read whose clustering column got its lower bound first and its upper bound
\* second, both accepted.
C17_Witness ==
  /\ ~write_only
  /\ Len(walked) >= 2
  /\ status = OK
  /\ walked[1].op \in RangeGT /\ walked[2].op \in RangeLT
  /\ walked[1].col = walked[2].col
  /\ IsClusteringColumn(walked[1].col)
  /\ op_counters[walked[1].col].lt_count = 1
  /\ op_counters[walked[1].col].gt_count = 1
  /\ Len(where_ops) = 2

\* ---------------------------------------------------------------- C18
\* The walk of the WHERE clause is under way or was ended by a rejected leaf.
Walking == pc = "where" \/ (pc = "done" /\ status \in LeafErrors)

\* The slot is empty or holds an EQ ColumnOp of the column at its position.
SlotWellFormed(idx) ==
  \/ ~IsInitialized(key_where_ops[idx])
  \/ key_where_ops[idx].yql_op = "EQ" /\ key_where_ops[idx].desc = idx

\* C18: in every state reached during WHERE analysis each key slot is empty or
\* holds an EQ ColumnOp whose column index is the slot's position, and every
\* slot write is within bounds: key_where_ops has num_key_columns slots in a
\* write and num_hash_key_columns slots in a read; an accepted EQ on a hash
\* column is in the slot of its index in both; an accepted EQ on a clustering
\* column is in the slot of its index in a write, and in a read is in where_ops
\* and in no slot.
C18_KeySlots ==
  /\ \A idx \in DOMAIN key_where_ops : SlotWellFormed(idx)
  /\ Walking =>
       /\ Size(key_where_ops) = IF write_only THEN num_key_columns ELSE num_hash_key_columns
       /\ \A i \in 1..Len(AcceptedLeaves) :
            LET leaf == AcceptedLeaves[i]
            IN leaf.op = "EQ" =>
                 /\ IsHashColumn(leaf.col) =>
                      /\ leaf.col < Size(key_where_ops)
                      /\ InKeySlot(leaf) /\ ~InFilterOps(leaf)
                 /\ (IsClusteringColumn(leaf.col) /\ write_only) =>
                      /\ leaf.col < Size(key_where_ops)
                      /\ InKeySlot(leaf) /\ ~InFilterOps(leaf)
                 /\ (IsClusteringColumn(leaf.col) /\ ~write_only) =>
                      /\ InFilterOps(leaf)
                      /\ \A idx \in DOMAIN key_where_ops : key_where_ops[idx] # ColumnOpOf(leaf)

\* During the walk of a write: an EQ on a hash column and an EQ on a clustering
\* column are both in their slots.
C18_Witness ==
  /\ pc = "where" /\ write_only
  /\ Len(walked) = 2
  /\ walked[1].op = "EQ" /\ IsClusteringColumn(walked[1].col)
  /\ walked[2].op = "EQ" /\ IsHashColumn(walked[2].col)
  /\ InKeySlot(walked[1]) /\ InKeySlot(walked[2])
  /\ where_ops = <<>>

\* ---------------------------------------------------------------- C19
\* The WHERE analysis of a write statement has succeeded.
WriteSucceeded == WalkAccepted /\ write_only /\ status = OK

\* C19: whenever the WHERE analysis of a write statement succeeds,
\* key_where_ops has num_key_columns slots or num_hash_key_columns slots, the
\* latter only for a static-only write with no EQ on a clustering column;
\* every slot is filled, and where_ops is empty.
C19_WriteIsPointLookup ==
  WriteSucceeded =>
    /\ Size(key_where_ops) \in {num_key_columns, num_hash_key_columns}
    /\ Size(key_where_ops) # num_key_columns => (StaticOnly /\ ClusteringEqCount = 0)
    /\ \A idx \in DOMAIN key_where_ops : IsInitialized(key_where_ops[idx])
    /\ where_ops = <<>>

\* A successful static-only write on a table with clustering columns, whose
\* WHERE clause names them all: the slots of the whole key stay.
C19_Witness ==
  /\ WriteSucceeded
  /\ StaticOnly
  /\ num_hash_key_columns < num_key_columns
  /\ ClusteringEqCount = FullRange
  /\ Size(key_where_ops) = num_key_columns
  /\ \A idx \in DOMAIN key_where_ops : IsInitialized(key_where_ops[idx])

\* ---------------------------------------------------------------- C20
\* The leaves of the WHERE clause in the order a permutation of their positions gives.
Reordered(leaves, p) == [i \in 1..Len(leaves) |-> leaves[p[i]]]

\* The analysis of the statement's table, kind and column_args with the WHERE
\* clause made of these leaves.
Reanalyzed(leaves) ==
  AnalyzeWhereExpr(leaves, write_only, table_columns, num_hash_key_columns, num_key_columns,
                   column_args.args)

\* C20: whether the WHERE analysis accepts a conjunction does not depend on the
\* order of its leaves: for every table, statement kind and column_args, and
\* every permutation of the leaves that were analyzed, the analysis of the
\* permuted conjunction succeeds iff the analysis that was made succeeded, and
\* on success leaves the same key_where_ops.
C20_OrderIndependent ==
  WhereDone =>
    \A p \in Permutations(1..Len(walked)) :
      LET r == Reanalyzed(Reordered(walked, p))
      IN /\ r.status = OK <=> status = OK
         /\ status = OK => r.key_ops = key_where_ops

\* A read that was given c < 1 AND h = 2 AND c > 3 and accepted them: the
\* slot of h is filled from the second leaf and every order has to agree.
C20_Witness ==
  /\ WhereDone /\ ~write_only /\ status = OK
  /\ Len(walked) = 3
  /\ walked[1].op \in RangeLT /\ walked[3].op \in RangeGT
  /\ walked[1].col = walked[3].col /\ IsClusteringColumn(walked[1].col)
  /\ walked[2].op = "EQ" /\ IsHashColumn(walked[2].col)
  /\ num_hash_key_columns = 1
  /\ InKeySlot(walked[2])
  /\ Len(where_ops) = 2

====
